---- MODULE Spec2Model ----
(***************************************************************************)
(* Deep-research scripts (gemini_deep_research.py, openai_deep_research.py) *)
(* Two command-line scripts: load config.json, open a vendor event stream,  *)
(* accumulate the report text of the stream and write it to a file.         *)
(* Both variants run here on the same abstract event sequence, each with    *)
(* its own config file, output file and program counter.  Text is a         *)
(* sequence of one-character strings.                                       *)
(***************************************************************************)
EXTENDS Integers, Sequences, FiniteSets, TLC

VARIABLES
    events,        \* the event sequence the vendor stream delivers (the input)
    configExists,  \* [variant -> BOOLEAN]  CONFIG_PATH.exists()
    pc,            \* [variant -> position in run_deep_research]
    idx,           \* [variant -> number of events the for-loop has pulled]
    report,        \* [variant -> the local `report`]
    clientBuilt,   \* [variant -> the SDK client was constructed]
    streamOpened,  \* [variant -> the stream-opening call was made]
    exitCode,      \* [variant -> process exit status, meaningful at pc = "done"]
    outDir,        \* [variant -> output_path.parent exists]
    outFile,       \* [variant -> content of output_path, or NoFile]
    oldFile,       \* [variant -> content of output_path before the run]
    written,       \* [variant -> output_path.write_text was called]
    text,          \* slugify: the instruction text
    slug,          \* slugify(text)
    reslug,        \* slugify(slug)
    spc            \* position of the slug computation

runVars == <<events, configExists, pc, idx, report, clientBuilt, streamOpened,
             exitCode, outDir, outFile, oldFile, written>>
slugVars == <<text, slug, reslug, spc>>
vars == <<runVars, slugVars>>

Variants == {"gemini", "openai"}

\* Longest event sequence the stream delivers.
MaxEvents == 3

NoFile == <<"<absent>">>
OldContent == <<"o", "l", "d">>

(***************************************************************************)
(* Abstract stream events and their mapping to each vendor's event tags.    *)
(***************************************************************************)
TextFrags == {<<>>, <<"a">>, <<"b">>}
ThoughtFrags == {<<"t">>}

Ev(k, f) == [kind |-> k, frag |-> f]

StreamEvent ==
    {Ev(k, <<>>) : k \in {"started", "item_added", "completed", "error", "other"}}
        \cup {Ev("text_delta", f) : f \in TextFrags}
        \cup {Ev("thought_delta", f) : f \in ThoughtFrags}

EventSeqs == UNION {[1..n -> StreamEvent] : n \in 0..MaxEvents}

\* The chunk the Gemini interactions stream yields for an abstract event:
\* chunk.event_type, chunk.delta.type, chunk.delta.text / .content.text.
GeminiChunkOf(ev) ==
    CASE ev.kind = "started"       -> [event_type |-> "interaction.start", delta_type |-> "", delta |-> <<>>]
      [] ev.kind = "text_delta"    -> [event_type |-> "content.delta", delta_type |-> "text", delta |-> ev.frag]
      [] ev.kind = "thought_delta" -> [event_type |-> "content.delta", delta_type |-> "thought_summary", delta |-> ev.frag]
      [] ev.kind = "item_added"    -> [event_type |-> "content.start", delta_type |-> "", delta |-> <<>>]
      [] ev.kind = "completed"     -> [event_type |-> "interaction.complete", delta_type |-> "", delta |-> <<>>]
      [] ev.kind = "error"         -> [event_type |-> "error", delta_type |-> "", delta |-> <<>>]
      [] OTHER                     -> [event_type |-> "interaction.status_update", delta_type |-> "", delta |-> <<>>]

\* The event the OpenAI responses stream yields: event.type, event.delta.
OpenAIEventOf(ev) ==
    CASE ev.kind = "started"       -> [type |-> "response.created", delta |-> <<>>]
      [] ev.kind = "text_delta"    -> [type |-> "response.output_text.delta", delta |-> ev.frag]
      [] ev.kind = "thought_delta" -> [type |-> "response.reasoning_summary_text.delta", delta |-> ev.frag]
      [] ev.kind = "item_added"    -> [type |-> "response.output_item.added", delta |-> <<>>]
      [] ev.kind = "completed"     -> [type |-> "response.completed", delta |-> <<>>]
      [] ev.kind = "error"         -> [type |-> "error", delta |-> <<>>]
      [] OTHER                     -> [type |-> "response.in_progress", delta |-> <<>>]

(***************************************************************************)
(* The loop bodies.  Each returns the new `report` and whether the body     *)
(* called sys.exit(1).                                                      *)
(***************************************************************************)
\* Python `report += delta` on str.
StrAppendReversed(r, delta) == delta \o r
StrAppend(r, delta) == r \o delta

\* `if not report`
IsEmptyNever(r) == FALSE
IsEmpty(r) == Len(r) = 0

GeminiBodyThoughtAppended(chunk, r) ==
    IF chunk.event_type = "content.delta"
    THEN [report |-> StrAppend(r, chunk.delta), exit |-> FALSE]
    ELSE [report |-> r, exit |-> chunk.event_type = "error"]

GeminiBody(chunk, r) ==
    IF chunk.event_type = "interaction.start" THEN [report |-> r, exit |-> FALSE]
    ELSE IF chunk.event_type = "content.delta" THEN
        IF chunk.delta_type = "text" THEN [report |-> StrAppend(r, chunk.delta), exit |-> FALSE]
        ELSE IF chunk.delta_type = "thought_summary" THEN [report |-> r, exit |-> FALSE]
        ELSE [report |-> r, exit |-> FALSE]
    ELSE IF chunk.event_type = "interaction.complete" THEN [report |-> r, exit |-> FALSE]
    ELSE IF chunk.event_type = "error" THEN [report |-> r, exit |-> TRUE]
    ELSE [report |-> r, exit |-> FALSE]

OpenAIBodyThoughtAppended(event, r) ==
    IF event.type \in {"response.output_text.delta", "response.reasoning_summary_text.delta"}
    THEN [report |-> StrAppend(r, event.delta), exit |-> FALSE]
    ELSE [report |-> r, exit |-> event.type = "error"]

OpenAIBodyErrorIgnored(event, r) ==
    IF event.type = "response.output_text.delta"
    THEN [report |-> StrAppend(r, event.delta), exit |-> FALSE]
    ELSE [report |-> r, exit |-> FALSE]

OpenAIBody(event, r) ==
    IF event.type = "response.created" THEN [report |-> r, exit |-> FALSE]
    ELSE IF event.type = "response.output_item.added" THEN [report |-> r, exit |-> FALSE]
    ELSE IF event.type = "response.output_text.delta" THEN [report |-> StrAppend(r, event.delta), exit |-> FALSE]
    ELSE IF event.type = "response.reasoning_summary_text.delta" THEN [report |-> r, exit |-> FALSE]
    ELSE IF event.type = "response.completed" THEN [report |-> r, exit |-> FALSE]
    ELSE IF event.type = "error" THEN [report |-> r, exit |-> TRUE]
    ELSE [report |-> r, exit |-> FALSE]

(***************************************************************************)
(* run_deep_research, one action per statement group, per variant.          *)
(***************************************************************************)
Set(f, v, x) == [f EXCEPT ![v] = x]

\* load_config(): sys.exit(1) when config.json is absent.
GeminiLoadConfigNoCheck ==
    /\ pc["gemini"] = "load_config"
    /\ pc' = Set(pc, "gemini", "client")
    /\ UNCHANGED <<events, configExists, idx, report, clientBuilt, streamOpened,
                   exitCode, outDir, outFile, oldFile, written, slugVars>>

GeminiLoadConfig ==
    /\ pc["gemini"] = "load_config"
    /\ IF configExists["gemini"]
       THEN /\ pc' = Set(pc, "gemini", "client")
            /\ UNCHANGED exitCode
       ELSE /\ pc' = Set(pc, "gemini", "done")
            /\ exitCode' = Set(exitCode, "gemini", 1)
    /\ UNCHANGED <<events, configExists, idx, report, clientBuilt, streamOpened,
                   outDir, outFile, oldFile, written, slugVars>>

\* client = genai.Client(api_key=config["api_key"])
GeminiClient ==
    /\ pc["gemini"] = "client"
    /\ clientBuilt' = Set(clientBuilt, "gemini", TRUE)
    /\ pc' = Set(pc, "gemini", "create")
    /\ UNCHANGED <<events, configExists, idx, report, streamOpened,
                   exitCode, outDir, outFile, oldFile, written, slugVars>>

\* stream = client.interactions.create(...); interaction_id = None; report = ""
GeminiCreate ==
    /\ pc["gemini"] = "create"
    /\ streamOpened' = Set(streamOpened, "gemini", TRUE)
    /\ report' = Set(report, "gemini", <<>>)
    /\ pc' = Set(pc, "gemini", "loop")
    /\ UNCHANGED <<events, configExists, idx, clientBuilt,
                   exitCode, outDir, outFile, oldFile, written, slugVars>>

\* One iteration of `for chunk in stream`.
GeminiChunk ==
    /\ pc["gemini"] = "loop"
    /\ idx["gemini"] < Len(events)
    /\ LET res == GeminiBody(GeminiChunkOf(events[idx["gemini"] + 1]), report["gemini"])
       IN  /\ idx' = Set(idx, "gemini", idx["gemini"] + 1)
           /\ report' = Set(report, "gemini", res.report)
           /\ IF res.exit
              THEN /\ pc' = Set(pc, "gemini", "done")
                   /\ exitCode' = Set(exitCode, "gemini", 1)
              ELSE UNCHANGED <<pc, exitCode>>
    /\ UNCHANGED <<events, configExists, clientBuilt, streamOpened,
                   outDir, outFile, oldFile, written, slugVars>>

\* The stream is exhausted: the empty-report check, then mkdir and write_text.
GeminiFinish ==
    /\ pc["gemini"] = "loop"
    /\ idx["gemini"] = Len(events)
    /\ pc' = Set(pc, "gemini", "done")
    /\ IF IsEmpty(report["gemini"])
       THEN /\ exitCode' = Set(exitCode, "gemini", 1)
            /\ UNCHANGED <<outDir, outFile, written>>
       ELSE /\ outDir' = Set(outDir, "gemini", TRUE)
            /\ outFile' = Set(outFile, "gemini", report["gemini"])
            /\ written' = Set(written, "gemini", TRUE)
            /\ exitCode' = Set(exitCode, "gemini", 0)
    /\ UNCHANGED <<events, configExists, idx, report, clientBuilt, streamOpened,
                   oldFile, slugVars>>

OpenAILoadConfig ==
    /\ pc["openai"] = "load_config"
    /\ IF configExists["openai"]
       THEN /\ pc' = Set(pc, "openai", "client")
            /\ UNCHANGED exitCode
       ELSE /\ pc' = Set(pc, "openai", "done")
            /\ exitCode' = Set(exitCode, "openai", 1)
    /\ UNCHANGED <<events, configExists, idx, report, clientBuilt, streamOpened,
                   outDir, outFile, oldFile, written, slugVars>>

\* client = OpenAI(api_key=config["api_key"])
OpenAIClient ==
    /\ pc["openai"] = "client"
    /\ clientBuilt' = Set(clientBuilt, "openai", TRUE)
    /\ pc' = Set(pc, "openai", "create")
    /\ UNCHANGED <<events, configExists, idx, report, streamOpened,
                   exitCode, outDir, outFile, oldFile, written, slugVars>>

\* stream = client.responses.create(...); report = ""
OpenAICreate ==
    /\ pc["openai"] = "create"
    /\ streamOpened' = Set(streamOpened, "openai", TRUE)
    /\ report' = Set(report, "openai", <<>>)
    /\ pc' = Set(pc, "openai", "loop")
    /\ UNCHANGED <<events, configExists, idx, clientBuilt,
                   exitCode, outDir, outFile, oldFile, written, slugVars>>

\* One iteration of `for event in stream`.
OpenAIEvent ==
    /\ pc["openai"] = "loop"
    /\ idx["openai"] < Len(events)
    /\ LET res == OpenAIBody(OpenAIEventOf(events[idx["openai"] + 1]), report["openai"])
       IN  /\ idx' = Set(idx, "openai", idx["openai"] + 1)
           /\ report' = Set(report, "openai", res.report)
           /\ IF res.exit
              THEN /\ pc' = Set(pc, "openai", "done")
                   /\ exitCode' = Set(exitCode, "openai", 1)
              ELSE UNCHANGED <<pc, exitCode>>
    /\ UNCHANGED <<events, configExists, clientBuilt, streamOpened,
                   outDir, outFile, oldFile, written, slugVars>>

OpenAIFinish ==
    /\ pc["openai"] = "loop"
    /\ idx["openai"] = Len(events)
    /\ pc' = Set(pc, "openai", "done")
    /\ IF IsEmpty(report["openai"])
       THEN /\ exitCode' = Set(exitCode, "openai", 1)
            /\ UNCHANGED <<outDir, outFile, written>>
       ELSE /\ outDir' = Set(outDir, "openai", TRUE)
            /\ outFile' = Set(outFile, "openai", report["openai"])
            /\ written' = Set(written, "openai", TRUE)
            /\ exitCode' = Set(exitCode, "openai", 0)
    /\ UNCHANGED <<events, configExists, idx, report, clientBuilt, streamOpened,
                   oldFile, slugVars>>

(***************************************************************************)
(* slugify(text, max_len=60)                                                *)
(***************************************************************************)
DefaultMaxLen == 60

\* Longest free suffix of the instruction texts tried.
MaxAffix == 3

Chars == {"a", "B", "7", "-", "_", " ", "!"}

\* str.lower()
LowerChar(c) == IF c = "B" THEN "b" ELSE c
Lower(s) == [i \in 1..Len(s) |-> LowerChar(s[i])]

\* \w : letters, digits, underscore.   \s : whitespace.
IsWordChar(c) == c \in {"a", "b", "B", "7", "_"}
IsSpaceChar(c) == c = " "

\* re.sub(r"[^\w\s-]", "", s)
KeepChar(c) == IsWordChar(c) \/ IsSpaceChar(c) \/ c = "-"
RemoveOthers(s) == SelectSeq(s, KeepChar)

\* re.sub(r"[\s_]+", "-", s): every maximal run becomes one hyphen.
IsSepChar(c) == IsSpaceChar(c) \/ c = "_"
RECURSIVE SkipSeps(_)
SkipSeps(s) == IF s # <<>> /\ IsSepChar(Head(s)) THEN SkipSeps(Tail(s)) ELSE s
RECURSIVE CollapseSeps(_)
CollapseSeps(s) ==
    IF s = <<>> THEN <<>>
    ELSE IF IsSepChar(Head(s)) THEN <<"-">> \o CollapseSeps(SkipSeps(s))
    ELSE <<Head(s)>> \o CollapseSeps(Tail(s))

\* str.strip("-")
RECURSIVE LStripHyphen(_)
LStripHyphen(s) == IF s # <<>> /\ Head(s) = "-" THEN LStripHyphen(Tail(s)) ELSE s
RECURSIVE RStripHyphen(_)
RStripHyphen(s) ==
    IF s # <<>> /\ s[Len(s)] = "-" THEN RStripHyphen(SubSeq(s, 1, Len(s) - 1)) ELSE s
StripHyphen(s) == RStripHyphen(LStripHyphen(s))

\* slug[:max_len]
Truncate(s, max_len) == IF Len(s) <= max_len THEN s ELSE SubSeq(s, 1, max_len)

slugify(t, max_len) ==
    Truncate(StripHyphen(CollapseSeps(RemoveOthers(Lower(t)))), max_len)

\* Instruction texts: at most one free character, a run of "a" that is empty or
\* about max_len long, then a free suffix.
Heads == {<<>>} \cup {<<c>> : c \in Chars}
Affixes == UNION {[1..n -> Chars] : n \in 0..MaxAffix}
Pad(n) == [i \in 1..n |-> "a"]
PadLens == {0} \cup ((DefaultMaxLen - 3)..(DefaultMaxLen + 1))
Instructions == {h \o Pad(n) \o t : h \in Heads, n \in PadLens, t \in Affixes}

\* slug = slugify(args.instruction)
Slugify ==
    /\ spc = "start"
    /\ slug' = slugify(text, DefaultMaxLen)
    /\ spc' = "slugged"
    /\ UNCHANGED <<text, reslug, runVars>>

\* The slug fed back as instruction text.
Reslugify ==
    /\ spc = "slugged"
    /\ reslug' = slugify(slug, DefaultMaxLen)
    /\ spc' = "reslugged"
    /\ UNCHANGED <<text, slug, runVars>>

(***************************************************************************)
(* Specifications                                                           *)
(***************************************************************************)
FileStates == {[dir |-> FALSE, file |-> NoFile],
               [dir |-> TRUE, file |-> NoFile],
               [dir |-> TRUE, file |-> OldContent]}

Init ==
    /\ events \in EventSeqs
    /\ configExists \in [Variants -> BOOLEAN]
    /\ pc = [v \in Variants |-> "load_config"]
    /\ idx = [v \in Variants |-> 0]
    /\ report = [v \in Variants |-> <<>>]
    /\ clientBuilt = [v \in Variants |-> FALSE]
    /\ streamOpened = [v \in Variants |-> FALSE]
    /\ exitCode = [v \in Variants |-> 0]
    /\ \E fs \in FileStates :
          /\ outDir = [v \in Variants |-> fs.dir]
          /\ outFile = [v \in Variants |-> fs.file]
          /\ oldFile = [v \in Variants |-> fs.file]
    /\ written = [v \in Variants |-> FALSE]
    /\ text = <<>>
    /\ slug = <<>>
    /\ reslug = <<>>
    /\ spc = "idle"

Next ==
    \/ GeminiLoadConfig
    \/ GeminiClient
    \/ GeminiCreate
    \/ GeminiChunk
    \/ GeminiFinish
    \/ OpenAILoadConfig
    \/ OpenAIClient
    \/ OpenAICreate
    \/ OpenAIEvent
    \/ OpenAIFinish

Spec == Init /\ [][Next]_vars

SlugInit ==
    /\ text \in Instructions
    /\ slug = <<>>
    /\ reslug = <<>>
    /\ spc = "start"
    /\ events = <<>>
    /\ configExists = [v \in Variants |-> FALSE]
    /\ pc = [v \in Variants |-> "idle"]
    /\ idx = [v \in Variants |-> 0]
    /\ report = [v \in Variants |-> <<>>]
    /\ clientBuilt = [v \in Variants |-> FALSE]
    /\ streamOpened = [v \in Variants |-> FALSE]
    /\ exitCode = [v \in Variants |-> 0]
    /\ outDir = [v \in Variants |-> FALSE]
    /\ outFile = [v \in Variants |-> NoFile]
    /\ oldFile = [v \in Variants |-> NoFile]
    /\ written = [v \in Variants |-> FALSE]

SlugNext ==
    \/ Slugify
    \/ Reslugify

SlugSpec == SlugInit /\ [][SlugNext]_vars

(***************************************************************************)
(* Properties                                                               *)
(***************************************************************************)
\* The events variant v has pulled from the stream so far.
Consumed(v) == SubSeq(events, 1, idx[v])

\* The text_delta fragments of an event sequence, concatenated in order.
RECURSIVE TextOf(_)
TextOf(es) ==
    IF es = <<>> THEN <<>>
    ELSE LET n == Len(es)
         IN  TextOf(SubSeq(es, 1, n - 1))
                 \o (IF es[n].kind = "text_delta" THEN es[n].frag ELSE <<>>)

HasKind(es, k) == \E i \in 1..Len(es) : es[i].kind = k
EndsIn(es, k) == es # <<>> /\ es[Len(es)].kind = k
Done(v) == pc[v] = "done"

\* C1 (as stated): when a run has ended, the artifact was written if and only
\* if the reducer observed a non-empty text_delta, reached `completed` with no
\* error event before it, and the accumulated text is non-empty.
C1_WrittenIffCompletedNonEmpty ==
    \A v \in Variants :
        Done(v) =>
            (written[v] <=>
                /\ \E i \in 1..idx[v] :
                      events[i].kind = "text_delta" /\ events[i].frag # <<>>
                /\ \E j \in 1..idx[v] :
                      /\ events[j].kind = "completed"
                      /\ \A k \in 1..(j - 1) : events[k].kind # "error"
                /\ report[v] # <<>>)

\* C2: a stream containing an `error` event at any position never leads to a
\* write of the artifact (the file keeps its previous state), and the run, once
\* ended, has exit status 1, whatever text was accumulated before the error.
C2_ErrorNeverWrites ==
    \A v \in Variants :
        HasKind(events, "error") =>
            /\ ~written[v]
            /\ outFile[v] = oldFile[v]
            /\ Done(v) => exitCode[v] = 1

\* C2 witness: a run that accumulated report text and then ended on an error event.
C2_Witness ==
    \E v \in Variants :
        /\ Done(v) /\ idx[v] > 1
        /\ events[idx[v]].kind = "error"
        /\ report[v] # <<>>
        /\ exitCode[v] = 1

\* C3: a stream ending in `completed` whose text_delta fragments are all empty
\* (or absent) never leads to a write: the output file keeps its previous
\* state, and the run, once ended, has exit status 1.
C3_EmptyReportNeverWrites ==
    \A v \in Variants :
        (EndsIn(events, "completed") /\ TextOf(events) = <<>>) =>
            /\ ~written[v]
            /\ outFile[v] = oldFile[v]
            /\ Done(v) => exitCode[v] = 1

\* C3 witness: a run over an existing file that consumed the whole stream, an
\* empty text_delta included, reached `completed` and ended with status 1.
C3_Witness ==
    \E v \in Variants :
        /\ Done(v) /\ configExists[v]
        /\ idx[v] = Len(events)
        /\ EndsIn(events, "completed")
        /\ \E i \in 1..Len(events) : events[i] = Ev("text_delta", <<>>)
        /\ report[v] = <<>>
        /\ oldFile[v] = OldContent /\ outFile[v] = OldContent
        /\ exitCode[v] = 1

\* C4: with the config file absent the run never constructs the client, never
\* opens the stream and never writes the artifact; it goes from load_config
\* straight to exit status 1.
C4_NoConfigNoNetwork ==
    \A v \in Variants :
        ~configExists[v] =>
            /\ ~clientBuilt[v]
            /\ ~streamOpened[v]
            /\ ~written[v]
            /\ outFile[v] = oldFile[v]
            /\ pc[v] \in {"load_config", "done"}
            /\ Done(v) => exitCode[v] = 1

\* C4 witness: a run without config file that has exited, over a non-empty stream.
C4_Witness ==
    \E v \in Variants :
        /\ ~configExists[v]
        /\ Done(v) /\ exitCode[v] = 1
        /\ events # <<>>

\* C5: once the stream is open the accumulator equals the concatenation, in
\* arrival order, of the text_delta fragments pulled so far, and a written
\* artifact holds exactly the accumulator.
C5_AccumulatorIsConcatenation ==
    \A v \in Variants :
        /\ streamOpened[v] => report[v] = TextOf(Consumed(v))
        /\ written[v] => outFile[v] = report[v] /\ outFile[v] = TextOf(events)

\* C5 witness: a successful run whose artifact is "ab", from fragments "a" then "b".
C5_Witness ==
    \E v \in Variants :
        /\ Done(v) /\ written[v] /\ exitCode[v] = 0
        /\ Len(events) >= 2
        /\ events[1] = Ev("text_delta", <<"a">>)
        /\ events[2] = Ev("text_delta", <<"b">>)
        /\ outFile[v] = <<"a", "b">>

\* Characters a slug may hold: lowercase alphanumerics and the hyphen.
SlugChars == {"a", "b", "7", "-"}

\* C6 (as stated): slugify(I) holds only lowercase alphanumerics and hyphens,
\* neither starts nor ends with a hyphen, and is at most 60 characters long.
C6_SlugWellFormed ==
    spc # "start" =>
        /\ \A i \in 1..Len(slug) : slug[i] \in SlugChars
        /\ Len(slug) <= DefaultMaxLen
        /\ slug # <<>> => (slug[1] # "-" /\ slug[Len(slug)] # "-")

\* C7 (as stated): slugify(slugify(I)) = slugify(I).
C7_SlugIdempotent ==
    spc = "reslugged" => reslug = slug

\* C8 (as stated): no event behind a `completed` event is pulled from the
\* stream: the loop position never passes a consumed `completed`.
C8_StopsAtCompleted ==
    \A v \in Variants :
        \A j \in 1..idx[v] :
            events[j].kind = "completed" => idx[v] = j

\* C9: a step changes the accumulator only by consuming a text_delta event;
\* started, thought_delta, item_added, completed and unrecognised events, and
\* every other statement, leave it unchanged.
C9_OnlyTextDeltaChangesReport ==
    [][\A v \in Variants :
          report'[v] # report[v] =>
              /\ idx'[v] = idx[v] + 1
              /\ events[idx'[v]].kind = "text_delta"]_vars

\* C9 witness: a thought_delta consumed after a text_delta left the report "a".
C9_Witness ==
    \E v \in Variants :
        /\ idx[v] >= 2
        /\ events[1] = Ev("text_delta", <<"a">>)
        /\ events[2] = Ev("thought_delta", <<"t">>)
        /\ report[v] = <<"a">>

\* C10: on the same event sequence the two variants hold equal accumulators
\* whenever they have pulled the same number of events, and, given the same
\* config presence, end with the same exit status, the same decision to write
\* and the same artifact content.
C10_VariantsAgree ==
    /\ (streamOpened["gemini"] /\ streamOpened["openai"] /\ idx["gemini"] = idx["openai"])
           => report["gemini"] = report["openai"]
    /\ (Done("gemini") /\ Done("openai") /\ configExists["gemini"] = configExists["openai"])
           => /\ exitCode["gemini"] = exitCode["openai"]
              /\ written["gemini"] = written["openai"]
              /\ outFile["gemini"] = outFile["openai"]
              /\ idx["gemini"] = idx["openai"]

\* C10 witness: both variants ended a successful run over a stream that holds
\* an item_added and a thought_delta event.
C10_Witness ==
    /\ Done("gemini") /\ Done("openai")
    /\ written["gemini"] /\ written["openai"]
    /\ HasKind(events, "item_added")
    /\ HasKind(events, "thought_delta")

====
